---- MODULE Spec2Model ----
(***************************************************************************)
(* Model of the NetworkX MCP server: the process-wide graph cache          *)
(* (src/src/cache.py), the resource view (src/src/resources.py), the       *)
(* materializer (src/src/base/base.py), the attribute query engine         *)
(* (src/src/base/graph_analytics.py) and the tools (src/src/tools.py).     *)
(*                                                                         *)
(* Conventions.  A Python str is a sequence of one-character strings.  A   *)
(* Python scalar is a tagged record (PyNone, PyNum, PyStr); floats and     *)
(* ints are both modelled by integers.  A Python dict is a function; a     *)
(* Python list is a sequence.  A call's outcome is Ok(value) or            *)
(* Raise(exception class, message tag).                                    *)
(***************************************************************************)
EXTENDS Integers, Sequences, FiniteSets, TLC

VARIABLES
    cache,   \* _loaded_graphs: alias -> graph description
    puts,    \* history: alias -> the description of the most recent cache_graph,
             \* and whether that call replaced a different description
    heap,    \* the graph instances that exist; the index is the identity
    held,    \* the references callers hold, in the order they were returned
    expect,  \* history: for each held reference, the graph its holder built and changed
    call,    \* the call in progress: its name, arguments and outcome
    threads, \* the calls in progress when threads share the cache: for each
             \* thread its call, its position in it and its local variables
    stored   \* history: alias -> the descriptions threads have stored under it

vars == <<cache, puts, heap, held, expect, call, threads, stored>>

-----------------------------------------------------------------------------
(* Python scalars and strings *)

PyNone == [t |-> "none", n |-> 0, s |-> <<>>]
PyNum(n) == [t |-> "num", n |-> n, s |-> <<>>]
PyStr(s) == [t |-> "str", n |-> 0, s |-> s]

\* `if x:` for x of type str | None
Truthy(x) == x.t = "str" /\ x.s # <<>>

\* str.startswith
StartsWith(s, p) == Len(s) >= Len(p) /\ SubSeq(s, 1, Len(p)) = p

\* str.replace(old, new): every non-overlapping occurrence, left to right
RECURSIVE StrReplace(_, _, _)
StrReplace(s, old, new) ==
    IF Len(s) < Len(old) \/ old = <<>> THEN s
    ELSE IF SubSeq(s, 1, Len(old)) = old
         THEN new \o StrReplace(SubSeq(s, Len(old) + 1, Len(s)), old, new)
         ELSE <<Head(s)>> \o StrReplace(Tail(s), old, new)

\* the literal "graph://" of cache.py
SCHEME == <<"g", "r", "a", "p", "h", ":", "/", "/">>

\* the keys node_link_graph reads: name="id", source="source", target="target", key="key"
K_id == <<"i", "d">>
K_source == <<"s", "o", "u", "r", "c", "e">>
K_target == <<"t", "a", "r", "g", "e", "t">>
K_key == <<"k", "e", "y">>

\* dict without some keys
DictWithout(d, ks) == [k \in DOMAIN d \ ks |-> d[k]]

\* dict.update: entries of new win
DictUpdate(old, new) == new @@ old

-----------------------------------------------------------------------------
(* Outcomes *)

NoVal == [none |-> TRUE]
Ok(v) == [ok |-> TRUE, exc |-> "none", msg |-> "none", val |-> v]
Raise(exc, msg) == [ok |-> FALSE, exc |-> exc, msg |-> msg, val |-> NoVal]

\* pydantic's ValidationError is a subclass of ValueError
IsValueError(exc) == exc \in {"ValueError", "ValidationError"}

\* None passed for graph_data
NoneData == [none |-> TRUE]
IsDict(d) == "none" \notin DOMAIN d

-----------------------------------------------------------------------------
(* GraphDataModel: the schema of a graph description *)

\* GraphDataModel.model_validate: nodes and links (or edges) are required,
\* directed and multigraph default to True, graph to {}; other keys are ignored
ModelValidate(d) ==
    IF ~IsDict(d) \/ "nodes" \notin DOMAIN d
           \/ ("links" \notin DOMAIN d /\ "edges" \notin DOMAIN d)
    THEN Raise("ValidationError", "schema")
    ELSE Ok([directed |-> IF "directed" \in DOMAIN d THEN d.directed ELSE TRUE,
             multigraph |-> IF "multigraph" \in DOMAIN d THEN d.multigraph ELSE TRUE,
             graph |-> IF "graph" \in DOMAIN d THEN d.graph ELSE <<>>,
             nodes |-> d.nodes,
             links |-> IF "links" \in DOMAIN d THEN d.links ELSE d.edges])

-----------------------------------------------------------------------------
(* Graph.create_graph: networkx.node_link_graph *)

EmptyGraph(directed, multigraph) ==
    [directed |-> directed, multigraph |-> multigraph,
     nodes |-> <<>>, attr |-> <<>>, edges |-> <<>>]

HasNode(G, n) == \E i \in 1..Len(G.nodes) : G.nodes[i] = n

\* add_node(n, **attrs): a new node is appended, an existing one is updated
AddNode(G, n, attrs) ==
    IF HasNode(G, n)
    THEN [G EXCEPT !.attr = [m \in DOMAIN G.attr |->
                                IF m = n THEN DictUpdate(G.attr[m], attrs) ELSE G.attr[m]]]
    ELSE [G EXCEPT !.nodes = Append(@, n), !.attr = (n :> attrs) @@ @]

\* whether edge record e joins u and v (in either direction when undirected)
Joins(G, e, u, v) ==
    \/ e.u = u /\ e.v = v
    \/ ~G.directed /\ e.u = v /\ e.v = u

\* the keys in use between u and v
KeysBetween(G, u, v) == {G.edges[i].k : i \in {j \in 1..Len(G.edges) : Joins(G, G.edges[j], u, v)}}

\* MultiGraph.new_edge_key: the number of edges between u and v, raised while taken
RECURSIVE FreeKeyFrom(_, _)
FreeKeyFrom(taken, n) == IF PyNum(n) \in taken THEN FreeKeyFrom(taken, n + 1) ELSE n

NewEdgeKey(G, u, v) ==
    LET taken == KeysBetween(G, u, v) IN PyNum(FreeKeyFrom(taken, Cardinality(taken)))

\* add_edge(u, v[, key], **attrs): the endpoints are added when missing; an edge that
\* exists already (same pair, and same key in a multigraph) has its attributes updated
AddEdge(G, u, v, ky, attrs) ==
    LET G1 == IF HasNode(G, u) THEN G ELSE AddNode(G, u, <<>>)
        G2 == IF HasNode(G1, v) THEN G1 ELSE AddNode(G1, v, <<>>)
        k == IF ~G.multigraph THEN PyNone
             ELSE IF ky # PyNone THEN ky ELSE NewEdgeKey(G2, u, v)
        hit == {i \in 1..Len(G2.edges) : Joins(G2, G2.edges[i], u, v) /\ G2.edges[i].k = k}
    IN IF hit # {}
       THEN [G2 EXCEPT !.edges = [i \in 1..Len(G2.edges) |->
                                     IF i \in hit
                                     THEN [G2.edges[i] EXCEPT !.attrs = DictUpdate(@, attrs)]
                                     ELSE G2.edges[i]]]
       ELSE [G2 EXCEPT !.edges = Append(@, [u |-> u, v |-> v, k |-> k, attrs |-> attrs])]

\* the node loop of node_link_graph: d["id"] raises KeyError when absent
RECURSIVE AddNodes(_, _)
AddNodes(G, recs) ==
    IF recs = <<>> THEN Ok(G)
    ELSE LET d == Head(recs) IN
         IF K_id \notin DOMAIN d THEN Raise("KeyError", "id")
         ELSE AddNodes(AddNode(G, d[K_id], DictWithout(d, {K_id})), Tail(recs))

\* the edge loop of node_link_graph: d["source"], d["target"] raise KeyError when absent
RECURSIVE AddEdges(_, _)
AddEdges(G, recs) ==
    IF recs = <<>> THEN Ok(G)
    ELSE LET d == Head(recs) IN
         IF K_source \notin DOMAIN d THEN Raise("KeyError", "source")
         ELSE IF K_target \notin DOMAIN d THEN Raise("KeyError", "target")
         ELSE AddEdges(AddEdge(G, d[K_source], d[K_target],
                               IF G.multigraph /\ K_key \in DOMAIN d THEN d[K_key] ELSE PyNone,
                               DictWithout(d, {K_source, K_target, K_key})),
                       Tail(recs))

\* Graph.create_graph on a validated model
CreateGraph(m) ==
    LET withNodes == AddNodes(EmptyGraph(m.directed, m.multigraph), m.nodes)
    IN IF ~withNodes.ok THEN withNodes ELSE AddEdges(withNodes.val, m.links)

\* Graph(GraphDataModel.model_validate(d)).graph
Materialize(d) ==
    LET m == ModelValidate(d) IN IF ~m.ok THEN m ELSE CreateGraph(m.val)

-----------------------------------------------------------------------------
(* json.dumps and json.loads.  A JSON text is kept as its syntax tree: an    *)
(* object (members by key), an array, or a literal token spelled out in      *)
(* characters.                                                               *)

DigitChars == <<"0", "1", "2", "3", "4", "5", "6", "7", "8", "9">>

RECURSIVE FormatNat(_)
FormatNat(n) ==
    IF n < 10 THEN <<DigitChars[n + 1]>>
    ELSE FormatNat(n \div 10) \o <<DigitChars[(n % 10) + 1]>>

FormatInt(n) == IF n < 0 THEN <<"-">> \o FormatNat(-n) ELSE FormatNat(n)

IsDigit(ch) == \E i \in 1..10 : DigitChars[i] = ch
DigitValue(ch) == (CHOOSE i \in 1..10 : DigitChars[i] = ch) - 1

RECURSIVE ParseNat(_, _)
ParseNat(s, acc) ==
    IF s = <<>> THEN acc ELSE ParseNat(Tail(s), 10 * acc + DigitValue(Head(s)))

\* whether s spells a decimal integer, with an optional sign
IsNumeral(s) ==
    LET body == IF s # <<>> /\ Head(s) \in {"-", "+"} THEN Tail(s) ELSE s
    IN body # <<>> /\ \A i \in 1..Len(body) : IsDigit(body[i])

ParseInt(s) ==
    IF Head(s) = "-" THEN 0 - ParseNat(Tail(s), 0)
    ELSE IF Head(s) = "+" THEN ParseNat(Tail(s), 0)
    ELSE ParseNat(s, 0)

JLit(tok) == [j |-> "lit", tok |-> tok, m |-> <<>>, a |-> <<>>]
JObj(m) == [j |-> "obj", tok |-> <<>>, m |-> m, a |-> <<>>]
JArr(a) == [j |-> "arr", tok |-> <<>>, m |-> <<>>, a |-> a]

TokNull == <<"n", "u", "l", "l">>
TokTrue == <<"t", "r", "u", "e">>
TokFalse == <<"f", "a", "l", "s", "e">>
Quote == "\""

\* a scalar's JSON token
DumpScalar(v) ==
    JLit(CASE v.t = "none" -> TokNull
           [] v.t = "num" -> FormatInt(v.n)
           [] v.t = "str" -> <<Quote>> \o v.s \o <<Quote>>)

DumpBool(b) == JLit(IF b THEN TokTrue ELSE TokFalse)

\* a dict of scalars (a node record, an edge record, the graph attributes)
DumpRecord(r) == JObj([k \in DOMAIN r |-> DumpScalar(r[k])])

DumpRecords(rs) == JArr([i \in 1..Len(rs) |-> DumpRecord(rs[i])])

\* json.dumps writing the edge list under "links" whatever its key was
JsonDumpsLinks(d) ==
    JObj([k \in (DOMAIN d \ {"edges"}) \cup (IF "edges" \in DOMAIN d THEN {"links"} ELSE {}) |->
            CASE k \in {"directed", "multigraph"} -> DumpBool(d[k])
              [] k = "graph" -> DumpRecord(d[k])
              [] k = "nodes" -> DumpRecords(d[k])
              [] k = "links" -> DumpRecords(IF "edges" \in DOMAIN d THEN d.edges ELSE d.links)])

\* json.dumps of a graph description, key by key
JsonDumps(d) ==
    JObj([k \in DOMAIN d |->
            CASE k \in {"directed", "multigraph"} -> DumpBool(d[k])
              [] k = "graph" -> DumpRecord(d[k])
              [] k \in {"nodes", "links", "edges"} -> DumpRecords(d[k])])

\* json.loads: the value is decided by the text alone
RECURSIVE JsonLoads(_)
JsonLoads(x) ==
    CASE x.j = "obj" -> [k \in DOMAIN x.m |-> JsonLoads(x.m[k])]
      [] x.j = "arr" -> [i \in 1..Len(x.a) |-> JsonLoads(x.a[i])]
      [] x.j = "lit" ->
           IF Head(x.tok) = Quote THEN PyStr(SubSeq(x.tok, 2, Len(x.tok) - 1))
           ELSE IF x.tok = TokNull THEN PyNone
           ELSE IF x.tok = TokTrue THEN TRUE
           ELSE IF x.tok = TokFalse THEN FALSE
           ELSE PyNum(ParseInt(x.tok))

\* whether the text is JSON: every literal in it is a string, null, true, false or
\* a number
RECURSIVE IsJson(_)
IsJson(x) ==
    CASE x.j = "obj" -> \A k \in DOMAIN x.m : IsJson(x.m[k])
      [] x.j = "arr" -> \A i \in 1..Len(x.a) : IsJson(x.a[i])
      [] x.j = "lit" ->
           \/ Len(x.tok) >= 2 /\ Head(x.tok) = Quote /\ x.tok[Len(x.tok)] = Quote
           \/ x.tok \in {TokNull, TokTrue, TokFalse}
           \/ IsNumeral(x.tok)

\* json.load(f): the value of the text, JSONDecodeError when it is not JSON
JsonLoad(text) ==
    IF IsJson(text) THEN Ok(JsonLoads(text)) ELSE Raise("JSONDecodeError", "text")

-----------------------------------------------------------------------------
(* cache.py.  Each function is an operator from the cache (and its           *)
(* arguments) to its outcome and the cache it leaves behind.                 *)

\* cache_graph that writes into the entry that exists, key by key (update of the
\* stored dict in place of the assignment of a reference)
CacheGraphUpdating(c, alias, d) ==
    [res |-> Ok(PyNone),
     cache |-> (alias :> IF alias \in DOMAIN c THEN d @@ c[alias] ELSE d) @@ c]

\* cache_graph that keeps an entry that exists (setdefault in place of assignment)
CacheGraphKeepFirst(c, alias, d) ==
    [res |-> Ok(PyNone), cache |-> c @@ (alias :> d)]

\* cache_graph: _loaded_graphs[alias] = graph_data
CacheGraph(c, alias, d) ==
    [res |-> Ok(PyNone), cache |-> (alias :> d) @@ c]

\* get_cached_graph: _loaded_graphs.get(alias)
GetCachedGraph(c, alias) ==
    [res |-> Ok(IF alias \in DOMAIN c THEN c[alias] ELSE NoneData), cache |-> c]

\* is_cached: alias in _loaded_graphs
IsCached(c, alias) ==
    [res |-> Ok(alias \in DOMAIN c), cache |-> c]

\* the message of the resource's not-found object, in pieces
NotFoundText(alias) ==
    <<Quote, "Graph '">> \o alias \o <<"' not found. Use load_graph_from_file to load it first.", Quote>>

\* get_graph_resource: the cached description as JSON, or an error object
GetGraphResource(c, alias) ==
    LET got == GetCachedGraph(c, alias) IN
    [res |-> Ok(IF ~IsDict(got.res.val)
                THEN JObj("error" :> JLit(NotFoundText(alias)))
                ELSE JsonDumps(got.res.val)),
     cache |-> got.cache]

\* a single graph object, filled again by each call
NewInstanceShared(h, made, c) ==
    IF made.ok
    THEN IF h = <<>> THEN [res |-> Ok(1), heap |-> <<made.val>>, cache |-> c]
         ELSE [res |-> Ok(Len(h)), heap |-> [h EXCEPT ![Len(h)] = made.val], cache |-> c]
    ELSE [res |-> made, heap |-> h, cache |-> c]

\* Graph(...).graph: a new instance, returned by reference
NewInstance(h, made, c) ==
    IF made.ok
    THEN [res |-> Ok(Len(h) + 1), heap |-> Append(h, made.val), cache |-> c]
    ELSE [res |-> made, heap |-> h, cache |-> c]

\* _resolve_graph with the lookup before the prefix check
ResolveGraphLookupFirst(c, h, graph_data, graph_uri) ==
    IF Truthy(graph_uri)
    THEN LET alias == StrReplace(graph_uri.s, SCHEME, <<>>) IN
         IF alias \in DOMAIN c THEN NewInstance(h, Materialize(c[alias]), c)
         ELSE IF ~StartsWith(graph_uri.s, SCHEME)
              THEN [res |-> Raise("ValueError", "InvalidURI"), heap |-> h, cache |-> c]
              ELSE [res |-> Raise("ValueError", "NotFound"), heap |-> h, cache |-> c]
    ELSE IF ~IsDict(graph_data)
         THEN [res |-> Raise("ValueError", "NoData"), heap |-> h, cache |-> c]
         ELSE NewInstance(h, Materialize(graph_data), c)

\* _resolve_graph taking the entry out of the cache (pop in place of a subscript)
ResolveGraphPopping(c, h, graph_data, graph_uri) ==
    IF Truthy(graph_uri)
    THEN IF ~StartsWith(graph_uri.s, SCHEME)
         THEN [res |-> Raise("ValueError", "InvalidURI"), heap |-> h, cache |-> c]
         ELSE LET alias == StrReplace(graph_uri.s, SCHEME, <<>>) IN
              IF alias \notin DOMAIN c
              THEN [res |-> Raise("ValueError", "NotFound"), heap |-> h, cache |-> c]
              ELSE NewInstance(h, Materialize(c[alias]), DictWithout(c, {alias}))
    ELSE IF ~IsDict(graph_data)
         THEN [res |-> Raise("ValueError", "NoData"), heap |-> h, cache |-> c]
         ELSE NewInstance(h, Materialize(graph_data), c)

\* _resolve_graph
ResolveGraph(c, h, graph_data, graph_uri) ==
    IF Truthy(graph_uri)
    THEN IF ~StartsWith(graph_uri.s, SCHEME)
         THEN [res |-> Raise("ValueError", "InvalidURI"), heap |-> h, cache |-> c]
         ELSE LET alias == StrReplace(graph_uri.s, SCHEME, <<>>) IN
              IF alias \notin DOMAIN c
              THEN [res |-> Raise("ValueError", "NotFound"), heap |-> h, cache |-> c]
              ELSE NewInstance(h, Materialize(c[alias]), c)
    ELSE IF ~IsDict(graph_data)
         THEN [res |-> Raise("ValueError", "NoData"), heap |-> h, cache |-> c]
         ELSE NewInstance(h, Materialize(graph_data), c)

-----------------------------------------------------------------------------
(* graph_analytics.py: the attribute query engine *)

\* the characters the model uses, in code-point order
CodePoints ==
    <<"+", "-", "/", "0", "1", "2", "3", "4", "5", "6", "7", "8", "9", ":",
      "A", "B", "C", "M", "W", "_", "a", "b", "c", "d", "e", "g", "h", "i", "k",
      "m", "n", "o", "p", "r", "s", "t", "u", "w", "x", "y">>

Ord(ch) == CHOOSE i \in 1..Len(CodePoints) : CodePoints[i] = ch

\* str < str: lexicographic by code point
RECURSIVE StrLess(_, _)
StrLess(a, b) ==
    IF b = <<>> THEN FALSE
    ELSE IF a = <<>> THEN TRUE
    ELSE IF Head(a) = Head(b) THEN StrLess(Tail(a), Tail(b))
    ELSE Ord(Head(a)) < Ord(Head(b))

\* operator_map
OperatorMap == {"==", "!=", "<", "<=", ">", ">="}

\* operator_map[op](a, b) on two non-None scalars: == and != are defined between
\* any two values, an ordering between a number and a string raises TypeError
PyCompare(op, a, b) ==
    IF a.t # b.t
    THEN CASE op = "==" -> Ok(FALSE)
           [] op = "!=" -> Ok(TRUE)
           [] OTHER -> Raise("TypeError", "not comparable")
    ELSE LET lt == IF a.t = "num" THEN a.n < b.n ELSE StrLess(a.s, b.s)
             eq == a = b
         IN Ok(CASE op = "==" -> eq
                 [] op = "!=" -> ~eq
                 [] op = "<" -> lt
                 [] op = "<=" -> lt \/ eq
                 [] op = ">" -> ~lt /\ ~eq
                 [] op = ">=" -> ~lt)

\* type_cast that returns the value as it is given
TypeCastKept(value) == value

\* type_cast: float(value), the value itself when float() raises ValueError or
\* TypeError.  float() of a str is modelled on signed decimal integers.
TypeCast(value) ==
    IF value.t = "str" /\ IsNumeral(value.s) THEN PyNum(ParseInt(value.s)) ELSE value

\* attrs.get(attribute)
DictGet(attrs, k) == IF k \in DOMAIN attrs THEN attrs[k] ELSE PyNone

\* G.nodes(data=True): (node, attrs) in insertion order
NodesView(G) ==
    [i \in 1..Len(G.nodes) |-> [e |-> G.nodes[i], attrs |-> G.attr[G.nodes[i]]]]

\* the neighbours of n in the order their first edge with n was added (the
\* successors when the graph is directed)
RECURSIVE NeighboursIn(_, _, _, _)
NeighboursIn(G, n, i, acc) ==
    IF i > Len(G.edges) THEN acc
    ELSE LET e == G.edges[i]
             nbr == IF e.u = n THEN e.v ELSE e.u
             touches == e.u = n \/ (~G.directed /\ e.v = n)
             known == \E x \in 1..Len(acc) : acc[x] = nbr
         IN NeighboursIn(G, n, i + 1, IF touches /\ ~known THEN Append(acc, nbr) ELSE acc)

Neighbours(G, n) == NeighboursIn(G, n, 1, <<>>)

\* the edges between n and nbr as (n, nbr, key, attrs), in insertion order
EdgesBetween(G, n, nbr) ==
    LET hit == SelectSeq(G.edges, LAMBDA e : Joins(G, e, n, nbr))
    IN [i \in 1..Len(hit) |-> [u |-> n, v |-> nbr, k |-> hit[i].k, attrs |-> hit[i].attrs]]

RECURSIVE Flatten(_)
Flatten(ss) == IF ss = <<>> THEN <<>> ELSE Head(ss) \o Flatten(Tail(ss))

\* G.edges(...): node by node, neighbour by neighbour; in an undirected graph an
\* edge is reported from the endpoint that comes first, and not again from the other
EdgeList(G) ==
    Flatten([i \in 1..Len(G.nodes) |->
        LET n == G.nodes[i]
            nbrs == SelectSeq(Neighbours(G, n),
                              LAMBDA m : G.directed \/ ~(\E x \in 1..(i - 1) : G.nodes[x] = m))
        IN Flatten([x \in 1..Len(nbrs) |-> EdgesBetween(G, n, nbrs[x])])])

\* G.edges(keys=True, data=True): ((u, v, k), attrs)
EdgesViewKeys(G) ==
    LET es == EdgeList(G)
    IN [i \in 1..Len(es) |-> [e |-> <<es[i].u, es[i].v, es[i].k>>, attrs |-> es[i].attrs]]

\* G.edges(data=True): ((u, v), attrs)
EdgesView(G) ==
    LET es == EdgeList(G)
    IN [i \in 1..Len(es) |-> [e |-> <<es[i].u, es[i].v>>, attrs |-> es[i].attrs]]

\* the existence test reduced to "attribute in attrs"
ExistScanPresent(view, attribute) ==
    LET hit == SelectSeq(view, LAMBDA it : attribute \in DOMAIN it.attrs)
    IN [i \in 1..Len(hit) |-> hit[i].e]

\* [x for x, attrs in view if attrs.get(attribute) is not None]
ExistScan(view, attribute) ==
    LET hit == SelectSeq(view, LAMBDA it : DictGet(it.attrs, attribute) # PyNone)
    IN [i \in 1..Len(hit) |-> hit[i].e]

\* the comparison loop with the query value as left operand
RECURSIVE CompareScanSwapped(_, _, _, _, _)
CompareScanSwapped(view, attribute, value, op, acc) ==
    IF view = <<>> THEN Ok(acc)
    ELSE LET v == DictGet(Head(view).attrs, attribute) IN
         IF v = PyNone THEN CompareScanSwapped(Tail(view), attribute, value, op, acc)
         ELSE LET c == PyCompare(op, value, v) IN
              IF ~c.ok THEN c
              ELSE CompareScanSwapped(Tail(view), attribute, value, op,
                                      IF c.val THEN Append(acc, Head(view).e) ELSE acc)

\* the comparison loop: the elements whose attribute is not None and satisfies the
\* operator, in iteration order; a comparison that raises ends the call
RECURSIVE CompareScan(_, _, _, _, _)
CompareScan(view, attribute, value, op, acc) ==
    IF view = <<>> THEN Ok(acc)
    ELSE LET v == DictGet(Head(view).attrs, attribute) IN
         IF v = PyNone THEN CompareScan(Tail(view), attribute, value, op, acc)
         ELSE LET c == PyCompare(op, v, value) IN
              IF ~c.ok THEN c
              ELSE CompareScan(Tail(view), attribute, value, op,
                               IF c.val THEN Append(acc, Head(view).e) ELSE acc)

\* nodes_by_attribute with the operator looked up only where it is used
NodesByAttributeLateLookup(G, attribute, value, op) ==
    LET cast == TypeCast(value) IN
    IF cast = PyNone THEN Ok(ExistScan(NodesView(G), attribute))
    ELSE IF op \notin OperatorMap THEN Raise("KeyError", op)
    ELSE CompareScan(NodesView(G), attribute, cast, op, <<>>)

\* NetworkXGraph.nodes_by_attribute
NodesByAttribute(G, attribute, value, op) ==
    IF op \notin OperatorMap THEN Raise("ValueError", "UnsupportedOperator")
    ELSE LET cast == TypeCast(value) IN
         IF cast = PyNone THEN Ok(ExistScan(NodesView(G), attribute))
         ELSE CompareScan(NodesView(G), attribute, cast, op, <<>>)

\* edges_by_attribute reporting (u, v) for every kind of graph
EdgesByAttributePairs(G, attribute, value, op) ==
    IF op \notin OperatorMap THEN Raise("ValueError", "UnsupportedOperator")
    ELSE LET cast == TypeCast(value) IN
         IF cast = PyNone THEN Ok(ExistScan(EdgesView(G), attribute))
         ELSE CompareScan(EdgesView(G), attribute, cast, op, <<>>)

\* NetworkXGraph.edges_by_attribute
EdgesByAttribute(G, attribute, value, op) ==
    IF op \notin OperatorMap THEN Raise("ValueError", "UnsupportedOperator")
    ELSE LET cast == TypeCast(value) IN
         IF G.multigraph
         THEN IF cast = PyNone THEN Ok(ExistScan(EdgesViewKeys(G), attribute))
              ELSE CompareScan(EdgesViewKeys(G), attribute, cast, op, <<>>)
         ELSE IF cast = PyNone THEN Ok(ExistScan(EdgesView(G), attribute))
              ELSE CompareScan(EdgesView(G), attribute, cast, op, <<>>)

\* set(list): the set of the elements of a list
Range(seq) == {seq[i] : i \in 1..Len(seq)}

\* the elements of a set in the order iteration yields them: some order, fixed
\* for the set
RECURSIVE SetToSeq(_)
SetToSeq(S) ==
    IF S = {} THEN <<>>
    ELSE LET x == CHOOSE y \in S : TRUE IN <<x>> \o SetToSeq(S \ {x})

\* str.lower, character by character
UpperChars == <<"A", "B", "C", "M", "W">>
LowerChars == <<"a", "b", "c", "m", "w">>

LowerChar(ch) ==
    IF \E i \in 1..Len(UpperChars) : UpperChars[i] = ch
    THEN LowerChars[CHOOSE i \in 1..Len(UpperChars) : UpperChars[i] = ch]
    ELSE ch

StrLower(s) == [i \in 1..Len(s) |-> LowerChar(s[i])]

\* sub in s
StrContains(s, sub) ==
    \E i \in 0..(Len(s) - Len(sub)) : SubSeq(s, i + 1, i + Len(sub)) = sub

\* the attribute keys on the items of a view
KeysOf(view) == UNION {DOMAIN view[i].attrs : i \in 1..Len(view)}

\* matching_attributes with the search string taken as it is written
MatchingAttributesAsWritten(G, attribute, type) ==
    IF type \notin {"node", "edge", "all"} THEN Raise("UnboundLocalError", "all_attrs")
    ELSE LET all_attrs == CASE type = "node" -> KeysOf(NodesView(G))
                            [] type = "edge" -> KeysOf(EdgesView(G))
                            [] type = "all" -> KeysOf(NodesView(G)) \cup KeysOf(EdgesView(G))
         IN Ok(SelectSeq(SetToSeq(all_attrs),
                         LAMBDA attr : StrContains(StrLower(attr), attribute)))

\* matching_attributes with the case "all" collecting the node attributes only
MatchingAttributesNodesOnly(G, attribute, type) ==
    IF type \notin {"node", "edge", "all"} THEN Raise("UnboundLocalError", "all_attrs")
    ELSE LET all_attrs == CASE type = "node" -> KeysOf(NodesView(G))
                            [] type = "edge" -> KeysOf(EdgesView(G))
                            [] type = "all" -> KeysOf(NodesView(G))
         IN Ok(SelectSeq(SetToSeq(all_attrs),
                         LAMBDA attr : StrContains(StrLower(attr), StrLower(attribute))))

\* NetworkXGraph.matching_attributes: the matching keys of the set all_attrs, as a
\* list.  A type outside the three cases leaves all_attrs unbound, and the
\* comprehension raises UnboundLocalError.
MatchingAttributes(G, attribute, type) ==
    IF type \notin {"node", "edge", "all"} THEN Raise("UnboundLocalError", "all_attrs")
    ELSE LET all_attrs == CASE type = "node" -> KeysOf(NodesView(G))
                            [] type = "edge" -> KeysOf(EdgesView(G))
                            [] type = "all" -> KeysOf(NodesView(G)) \cup KeysOf(EdgesView(G))
         IN Ok(SelectSeq(SetToSeq(all_attrs),
                         LAMBDA attr : StrContains(StrLower(attr), StrLower(attribute))))

-----------------------------------------------------------------------------
(* tools.py.  A tool's outcome is Ok(result) with result a ResultsModel, a    *)
(* ResultsAttributesModel, a path or an ErrorModel, or Raise when the          *)
(* exception leaves the tool.  The graph a tool resolves is local to the call. *)

NodeSet(G) == {G.nodes[i] : i \in 1..Len(G.nodes)}

\* the nodes one edge away from n, the direction of the edge left aside
SuccessorsEitherWay(G, n) == {m \in NodeSet(G) : \E i \in 1..Len(G.edges) :
                                \/ G.edges[i].u = n /\ G.edges[i].v = m
                                \/ G.edges[i].v = n /\ G.edges[i].u = m}

\* the nodes one edge away from n, along the edge direction when directed
Successors(G, n) == {m \in NodeSet(G) : \E i \in 1..Len(G.edges) :
                        \/ G.edges[i].u = n /\ G.edges[i].v = m
                        \/ ~G.directed /\ G.edges[i].v = n /\ G.edges[i].u = m}

\* the paths of k edges from s that visit no node twice
RECURSIVE SimplePaths(_, _, _)
SimplePaths(G, s, k) ==
    IF k = 0 THEN {<<s>>}
    ELSE UNION {{Append(p, m) : m \in Successors(G, p[Len(p)]) \ {p[i] : i \in 1..Len(p)}} :
                   p \in SimplePaths(G, s, k - 1)}

RECURSIVE ShortestFrom(_, _, _, _)
ShortestFrom(G, s, t, k) ==
    LET reach == {p \in SimplePaths(G, s, k) : p[Len(p)] = t} IN
    IF reach # {} THEN reach
    ELSE IF k >= Len(G.nodes) THEN {}
    ELSE ShortestFrom(G, s, t, k + 1)

\* networkx.shortest_path(G, source, target), unweighted: any one of the shortest
\* paths; NodeNotFound when an endpoint is not a node, NetworkXNoPath when there
\* is no path
NxShortestPath(G, source, target) ==
    IF source \notin NodeSet(G) \/ target \notin NodeSet(G)
    THEN {Raise("NodeNotFound", "endpoint")}
    ELSE LET ps == ShortestFrom(G, source, target, 0) IN
         IF ps = {} THEN {Raise("NetworkXNoPath", "no path")}
         ELSE {Ok(p) : p \in ps}

ErrorModel(text, cause) == [kind |-> "error", text |-> text, cause |-> cause]

\* shortest_path: the possible outcomes
ShortestPathTool(c, h, source, target, graph_data, graph_uri) ==
    LET r == ResolveGraph(c, h, graph_data, graph_uri)
        found == IF r.res.ok THEN NxShortestPath(r.heap[r.res.val], source, target)
                 ELSE {r.res}
    IN {[res |-> IF o.ok THEN Ok([kind |-> "path", path |-> o.val])
                 ELSE IF o.exc = "NetworkXNoPath" THEN Ok(ErrorModel("No path found", o.msg))
                 ELSE IF o.exc \in {"NodeNotFound", "KeyError", "TypeError"} \/ IsValueError(o.exc)
                      THEN Ok(ErrorModel("Invalid input", o.msg))
                 ELSE o,
         cache |-> r.cache] : o \in found}

\* AttributeValueFilter(...): value is float | str, operator one of the six
\* literals, uri a str; anything else is a ValidationError
AttributeValueFilter(uri, attribute, value, op, graph_data) ==
    IF uri.t # "str" \/ value.t = "none" \/ op \notin OperatorMap
    THEN Raise("ValidationError", "request")
    ELSE Ok([uri |-> uri, attribute |-> attribute, value |-> value,
             operator |-> op, graph_data |-> graph_data])

\* what `except (KeyError, TypeError, ValueError)` makes of an outcome
InvalidInputBoundary(o, c) ==
    [res |-> IF o.ok THEN Ok([kind |-> "matches", matches |-> o.val])
             ELSE IF o.exc \in {"KeyError", "TypeError"} \/ IsValueError(o.exc)
                  THEN Ok(ErrorModel("Invalid input", o.msg))
             ELSE o,
     cache |-> c]

\* find_nodes_by_attribute
FindNodesByAttribute(c, h, uri, attribute, value, op, graph_data) ==
    LET request == AttributeValueFilter(uri, attribute, value, op, graph_data) IN
    IF ~request.ok THEN InvalidInputBoundary(request, c)
    ELSE LET r == ResolveGraph(c, h, request.val.graph_data, request.val.uri) IN
         IF ~r.res.ok THEN InvalidInputBoundary(r.res, r.cache)
         ELSE InvalidInputBoundary(
                  NodesByAttribute(r.heap[r.res.val], request.val.attribute,
                                   request.val.value, request.val.operator), r.cache)

\* find_edges_by_attribute
FindEdgesByAttribute(c, h, uri, attribute, value, op, graph_data) ==
    LET request == AttributeValueFilter(uri, attribute, value, op, graph_data) IN
    IF ~request.ok THEN InvalidInputBoundary(request, c)
    ELSE LET r == ResolveGraph(c, h, request.val.graph_data, request.val.uri) IN
         IF ~r.res.ok THEN InvalidInputBoundary(r.res, r.cache)
         ELSE InvalidInputBoundary(
                  EdgesByAttribute(r.heap[r.res.val], request.val.attribute,
                                   request.val.value, request.val.operator), r.cache)

\* the body shared by the two attribute-discovery tools: only a ValueError of the
\* resolution is turned into an ErrorModel
FindBestMatching(c, h, uri, attribute, graph_data, type) ==
    LET r == ResolveGraph(c, h, graph_data, uri) IN
    IF ~r.res.ok
    THEN [res |-> IF IsValueError(r.res.exc) THEN Ok(ErrorModel(r.res.msg, r.res.msg))
                  ELSE r.res,
          cache |-> r.cache]
    ELSE LET found == MatchingAttributes(r.heap[r.res.val], attribute, type) IN
         [res |-> IF found.ok
                  THEN Ok([kind |-> "attributes", matching_attributes |-> Range(found.val)])
                  ELSE found,
          cache |-> r.cache]

\* find_best_matching_node_attribute
FindBestMatchingNodeAttribute(c, h, uri, attribute, graph_data) ==
    FindBestMatching(c, h, uri, attribute, graph_data, "node")

\* find_best_matching_edge_attribute
FindBestMatchingEdgeAttribute(c, h, uri, attribute, graph_data) ==
    FindBestMatching(c, h, uri, attribute, graph_data, "edge")

\* graph_data.model_dump(): the fields of the model under their own names
ModelDump(m) ==
    [directed |-> m.directed, multigraph |-> m.multigraph, graph |-> m.graph,
     nodes |-> m.nodes, links |-> m.links]

GraphCacheModel(alias) ==
    [kind |-> "cache", alias |-> alias, status |-> "loaded", uri |-> PyStr(SCHEME \o alias)]

\* load_graph_from_file with the graph cached before it has been built
LoadGraphFromFileUnchecked(c, files, path, alias) ==
    IF path \notin DOMAIN files THEN [res |-> Ok(ErrorModel("File not found", path)), cache |-> c]
    ELSE IF files[path].kind # "file"
         THEN [res |-> Ok(ErrorModel("Path is not a file", path)), cache |-> c]
    ELSE LET loaded == JsonLoad(files[path].text) IN
         IF ~loaded.ok THEN [res |-> Ok(ErrorModel("Invalid JSON", loaded.msg)), cache |-> c]
         ELSE LET m == ModelValidate(loaded.val) IN
              IF ~m.ok THEN [res |-> Ok(ErrorModel("Failed to load graph", m.msg)), cache |-> c]
              ELSE LET built == CreateGraph(m.val)
                       put == CacheGraph(c, alias, ModelDump(m.val))
                   IN IF ~built.ok
                      THEN [res |-> Ok(ErrorModel("Failed to load graph", built.msg)),
                            cache |-> put.cache]
                      ELSE [res |-> Ok(GraphCacheModel(alias)), cache |-> put.cache]

\* load_graph_from_file on a file system `files` (path -> directory or file with
\* its text); every exception ends in an ErrorModel
LoadGraphFromFile(c, files, path, alias) ==
    IF path \notin DOMAIN files THEN [res |-> Ok(ErrorModel("File not found", path)), cache |-> c]
    ELSE IF files[path].kind # "file"
         THEN [res |-> Ok(ErrorModel("Path is not a file", path)), cache |-> c]
    ELSE LET loaded == JsonLoad(files[path].text) IN
         IF ~loaded.ok THEN [res |-> Ok(ErrorModel("Invalid JSON", loaded.msg)), cache |-> c]
         ELSE LET m == ModelValidate(loaded.val) IN
              IF ~m.ok THEN [res |-> Ok(ErrorModel("Failed to load graph", m.msg)), cache |-> c]
              ELSE LET built == CreateGraph(m.val) IN
                   IF ~built.ok
                   THEN [res |-> Ok(ErrorModel("Failed to load graph", built.msg)), cache |-> c]
                   ELSE LET put == CacheGraph(c, alias, ModelDump(m.val)) IN
                        [res |-> Ok(GraphCacheModel(alias)), cache |-> put.cache]

-----------------------------------------------------------------------------
(* Inputs *)

\* the cache holds at most this many aliases
MaxEntries == 2

A == <<"a">>
B == <<"b">>
W == <<"w">>

NodeRec(id, w) == (K_id :> PyStr(id)) @@ (W :> w)
EdgeRec(u, v, w) == (K_source :> PyStr(u)) @@ (K_target :> PyStr(v)) @@ (W :> w)

\* a directed multigraph (by default) given under "links"
DescLinks ==
    [nodes |-> <<NodeRec(A, PyNum(1)), NodeRec(B, PyStr(<<"x">>))>>,
     links |-> <<EdgeRec(A, B, PyNum(5))>>]

\* an undirected simple graph given under "edges", without edges
DescEdges ==
    [directed |-> FALSE, multigraph |-> FALSE,
     nodes |-> <<NodeRec(A, PyNone), NodeRec(B, PyNum(2))>>,
     edges |-> <<>>]

\* no "nodes": rejected by the schema
DescNoNodes == [links |-> <<>>]

\* an edge record without "target": accepted by the schema, KeyError when built
DescNoTarget ==
    [nodes |-> <<NodeRec(A, PyNum(1))>>,
     links |-> <<(K_source :> PyStr(A))>>]

\* an edge to "b", which is not among the declared nodes
DescUndeclared ==
    [nodes |-> <<NodeRec(A, PyNum(1))>>,
     links |-> <<EdgeRec(A, B, PyNum(5))>>]

Descriptions == {DescLinks, DescEdges, DescNoNodes, DescNoTarget}

\* the aliases used as cache keys: "", "a" and "graph://a"
Aliases == {<<>>, A, SCHEME \o A}

\* graph_uri arguments: None, each alias bare, each alias behind the scheme
Uris == {PyNone} \cup {PyStr(a) : a \in Aliases} \cup {PyStr(SCHEME \o a) : a \in Aliases}

\* graph_data arguments
DataArgs == {NoneData} \cup Descriptions

NoArgs == <<>>

Call(op, alias, data, uri, args, ret) ==
    [op |-> op, alias |-> alias, data |-> data, uri |-> uri, args |-> args, ret |-> ret]

\* no call in progress
Idle == Call("idle", <<>>, NoneData, PyNone, NoArgs, Ok(PyNone))

-----------------------------------------------------------------------------
(* The cache and its callers.  Calls are served one at a time: a call is     *)
(* taken when none is in progress, and its outcome stays in `call` until the *)
(* caller has taken it.                                                      *)

Init ==
    /\ cache = <<>>
    /\ puts = <<>>
    /\ heap = <<>>
    /\ held = <<>>
    /\ expect = <<>>
    /\ call = Idle
    /\ threads = <<>>
    /\ stored = <<>>

DoCacheGraph(alias, d) ==
    /\ call = Idle
    /\ alias \in DOMAIN cache \/ Cardinality(DOMAIN cache) < MaxEntries
    /\ LET r == CacheGraph(cache, alias, d) IN
       /\ cache' = r.cache
       /\ call' = Call("cache_graph", alias, d, PyNone, NoArgs, r.res)
    /\ puts' = (alias :> [last |-> d,
                          again |-> alias \in DOMAIN cache /\ cache[alias] # d]) @@ puts
    /\ UNCHANGED <<heap, held, expect, threads, stored>>

DoGetCachedGraph(alias) ==
    /\ call = Idle
    /\ LET r == GetCachedGraph(cache, alias) IN
       /\ cache' = r.cache
       /\ call' = Call("get_cached_graph", alias, NoneData, PyNone, NoArgs, r.res)
    /\ UNCHANGED <<puts, heap, held, expect, threads, stored>>

DoIsCached(alias) ==
    /\ call = Idle
    /\ LET r == IsCached(cache, alias) IN
       /\ cache' = r.cache
       /\ call' = Call("is_cached", alias, NoneData, PyNone, NoArgs, r.res)
    /\ UNCHANGED <<puts, heap, held, expect, threads, stored>>

DoGetGraphResource(alias) ==
    /\ call = Idle
    /\ LET r == GetGraphResource(cache, alias) IN
       /\ cache' = r.cache
       /\ call' = Call("get_graph_resource", alias, NoneData, PyNone, NoArgs, r.res)
    /\ UNCHANGED <<puts, heap, held, expect, threads, stored>>

\* _resolve_graph called for its value: the caller reads the graph and drops it
DoResolveGraph(graph_data, graph_uri) ==
    /\ call = Idle
    /\ LET r == ResolveGraph(cache, heap, graph_data, graph_uri) IN
       /\ cache' = r.cache
       /\ call' = Call("_resolve_graph", <<>>, graph_data, graph_uri, NoArgs,
                       IF r.res.ok THEN Ok(r.heap[r.res.val]) ELSE r.res)
    /\ UNCHANGED <<puts, heap, held, expect, threads, stored>>

\* the arguments the tools are called with
ToolUris == Uris \ {PyNone}
ToolData == {NoneData, DescLinks}
Endpoints == {<<PyStr(A), PyStr(B)>>, <<PyStr(B), PyStr(A)>>, <<PyStr(A), PyStr(<<"c">>)>>}
NodeQueries == {<<PyNum(1), "==">>, <<PyNum(1), "<">>, <<PyStr(<<"x">>), "!=">>}
EdgeQueries == {<<PyNum(5), ">=">>, <<PyStr(<<"5">>), "~">>}
SearchStrings == {W, <<"x">>}

DoShortestPath(source, target, graph_data, graph_uri) ==
    /\ call = Idle
    /\ \E r \in ShortestPathTool(cache, heap, source, target, graph_data, graph_uri) :
          /\ cache' = r.cache
          /\ call' = Call("shortest_path", <<>>, graph_data, graph_uri,
                          <<source, target>>, r.res)
    /\ UNCHANGED <<puts, heap, held, expect, threads, stored>>

DoFindNodesByAttribute(uri, attribute, value, op, graph_data) ==
    /\ call = Idle
    /\ LET r == FindNodesByAttribute(cache, heap, uri, attribute, value, op, graph_data) IN
       /\ cache' = r.cache
       /\ call' = Call("find_nodes_by_attribute", <<>>, graph_data, uri,
                       <<attribute, value, op>>, r.res)
    /\ UNCHANGED <<puts, heap, held, expect, threads, stored>>

DoFindEdgesByAttribute(uri, attribute, value, op, graph_data) ==
    /\ call = Idle
    /\ LET r == FindEdgesByAttribute(cache, heap, uri, attribute, value, op, graph_data) IN
       /\ cache' = r.cache
       /\ call' = Call("find_edges_by_attribute", <<>>, graph_data, uri,
                       <<attribute, value, op>>, r.res)
    /\ UNCHANGED <<puts, heap, held, expect, threads, stored>>

DoFindBestMatchingNodeAttribute(uri, attribute, graph_data) ==
    /\ call = Idle
    /\ LET r == FindBestMatchingNodeAttribute(cache, heap, uri, attribute, graph_data) IN
       /\ cache' = r.cache
       /\ call' = Call("find_best_matching_node_attribute", <<>>, graph_data, uri,
                       <<attribute>>, r.res)
    /\ UNCHANGED <<puts, heap, held, expect, threads, stored>>

DoFindBestMatchingEdgeAttribute(uri, attribute, graph_data) ==
    /\ call = Idle
    /\ LET r == FindBestMatchingEdgeAttribute(cache, heap, uri, attribute, graph_data) IN
       /\ cache' = r.cache
       /\ call' = Call("find_best_matching_edge_attribute", <<>>, graph_data, uri,
                       <<attribute>>, r.res)
    /\ UNCHANGED <<puts, heap, held, expect, threads, stored>>

\* the caller takes the outcome
Return ==
    /\ call # Idle
    /\ call' = Idle
    /\ UNCHANGED <<cache, puts, heap, held, expect, threads, stored>>

Next ==
    \/ \E alias \in Aliases, d \in Descriptions : DoCacheGraph(alias, d)
    \/ \E alias \in Aliases : DoGetCachedGraph(alias)
    \/ \E alias \in Aliases : DoIsCached(alias)
    \/ \E alias \in Aliases : DoGetGraphResource(alias)
    \/ \E d \in DataArgs, u \in Uris : DoResolveGraph(d, u)
    \/ \E st \in Endpoints, d \in ToolData, u \in Uris : DoShortestPath(st[1], st[2], d, u)
    \/ \E u \in ToolUris, q \in NodeQueries, d \in ToolData :
          DoFindNodesByAttribute(u, W, q[1], q[2], d)
    \/ \E u \in ToolUris, q \in EdgeQueries, d \in ToolData :
          DoFindEdgesByAttribute(u, W, q[1], q[2], d)
    \/ \E u \in ToolUris, x \in SearchStrings, d \in ToolData :
          DoFindBestMatchingNodeAttribute(u, x, d)
    \/ \E u \in ToolUris, x \in SearchStrings, d \in ToolData :
          DoFindBestMatchingEdgeAttribute(u, x, d)
    \/ Return

Spec == Init /\ [][Next]_vars

-----------------------------------------------------------------------------
(* The server as its clients see it: the cache is written by                 *)
(* load_graph_from_file only, and read by the query tools.                   *)

\* the files on disk: a directory, a text that is not JSON, and descriptions; no
\* file at "missing.json"
Files ==
    [p \in {"dir", "bad.json", "links.json", "edges.json", "nonodes.json", "notarget.json",
            "undeclared.json"} |->
        CASE p = "dir" -> [kind |-> "dir"]
          [] p = "bad.json" -> [kind |-> "file", text |-> JLit(<<"{">>)]
          [] p = "links.json" -> [kind |-> "file", text |-> JsonDumps(DescLinks)]
          [] p = "edges.json" -> [kind |-> "file", text |-> JsonDumps(DescEdges)]
          [] p = "nonodes.json" -> [kind |-> "file", text |-> JsonDumps(DescNoNodes)]
          [] p = "notarget.json" -> [kind |-> "file", text |-> JsonDumps(DescNoTarget)]
          [] p = "undeclared.json" -> [kind |-> "file", text |-> JsonDumps(DescUndeclared)]]

Paths == DOMAIN Files \cup {"missing.json"}

\* inline descriptions given to the tools
ClientData == {NoneData, DescLinks, DescNoTarget}

DoLoadGraphFromFile(path, alias) ==
    /\ call = Idle
    /\ alias \in DOMAIN cache \/ Cardinality(DOMAIN cache) < MaxEntries
    /\ LET r == LoadGraphFromFile(cache, Files, path, alias) IN
       /\ cache' = r.cache
       /\ call' = Call("load_graph_from_file", alias, NoneData, PyNone, <<path>>, r.res)
       /\ puts' = IF r.res.val.kind = "cache"
                  THEN (alias :> [last |-> r.cache[alias],
                                  again |-> alias \in DOMAIN cache /\ cache[alias] # r.cache[alias]])
                           @@ puts
                  ELSE puts
    /\ UNCHANGED <<heap, held, expect, threads, stored>>

NextLoad ==
    \/ \E path \in Paths, alias \in Aliases : DoLoadGraphFromFile(path, alias)
    \/ \E st \in Endpoints, d \in ClientData, u \in Uris : DoShortestPath(st[1], st[2], d, u)
    \/ \E u \in ToolUris, q \in NodeQueries, d \in ClientData :
          DoFindNodesByAttribute(u, W, q[1], q[2], d)
    \/ \E u \in ToolUris, q \in EdgeQueries, d \in ClientData :
          DoFindEdgesByAttribute(u, W, q[1], q[2], d)
    \/ \E u \in ToolUris, x \in SearchStrings, d \in ClientData :
          DoFindBestMatchingNodeAttribute(u, x, d)
    \/ \E u \in ToolUris, x \in SearchStrings, d \in ClientData :
          DoFindBestMatchingEdgeAttribute(u, x, d)
    \/ Return

SpecLoad == Init /\ [][NextLoad]_vars

-----------------------------------------------------------------------------
(* Callers that keep the graphs they resolve, and change them *)

\* callers hold at most this many graphs
MaxHeld == 2

HeldAliases == {<<>>, A}
HeldDescriptions == {DescLinks, DescEdges}
Changes == {"add_node", "set_attribute"}

\* what a holder does to its graph: G.add_node("z"), or G.add_node(n, w=9) on the
\* first node
Change(G, how) ==
    IF how = "add_node" THEN AddNode(G, PyStr(<<"z">>), <<>>)
    ELSE IF G.nodes = <<>> THEN G
    ELSE AddNode(G, G.nodes[1], W :> PyNum(9))

\* _resolve_graph(None, "graph://" + alias), the caller keeping the graph returned
DoResolveAndHold(alias) ==
    /\ call = Idle
    /\ Len(held) < MaxHeld
    /\ LET uri == PyStr(SCHEME \o alias)
           r == ResolveGraph(cache, heap, NoneData, uri)
       IN /\ cache' = r.cache
          /\ heap' = r.heap
          /\ call' = Call("_resolve_graph", alias, NoneData, uri, NoArgs, r.res)
          /\ IF r.res.ok
             THEN /\ held' = Append(held, [ref |-> r.res.val, alias |-> alias])
                  /\ expect' = Append(expect, Materialize(cache[alias]).val)
             ELSE UNCHANGED <<held, expect>>
    /\ UNCHANGED <<puts, threads, stored>>

\* the holder of the i-th reference changes its graph
ChangeHeld(i, how) ==
    /\ call = Idle
    /\ i \in 1..Len(held)
    /\ heap' = [heap EXCEPT ![held[i].ref] = Change(@, how)]
    /\ expect' = [expect EXCEPT ![i] = Change(@, how)]
    /\ UNCHANGED <<cache, puts, held, call, threads, stored>>

NextHeld ==
    \/ \E alias \in HeldAliases, d \in HeldDescriptions : DoCacheGraph(alias, d)
    \/ \E alias \in HeldAliases : DoResolveAndHold(alias)
    \/ \E i \in 1..MaxHeld, how \in Changes : ChangeHeld(i, how)
    \/ Return

SpecHeld == Init /\ [][NextHeld]_vars

-----------------------------------------------------------------------------
(* The query engine on its own: one graph, built from a description drawn    *)
(* from a bounded family, queried by attribute.                              *)

\* a graph has at most this many declared nodes
MaxNodes == 2
\* a graph has at most this many edge records
MaxEdges == 2
\* numeric attribute values are 1..MaxNum
MaxNum == 2

NodeIds == <<A, B, <<"c">>, <<"d">>>>

\* a record that does not carry the attribute
Absent == [t |-> "absent", n |-> 0, s |-> <<>>]

NodeVals == {Absent, PyNone, PyStr(<<"x">>)} \cup {PyNum(n) : n \in 1..MaxNum}
EdgeVals == {Absent, PyNone, PyNum(1)}

NodeRecOf(id, w) == IF w = Absent THEN (K_id :> PyStr(id)) ELSE NodeRec(id, w)
EdgeRecOf(u, v, w) ==
    IF w = Absent THEN (K_source :> PyStr(u)) @@ (K_target :> PyStr(v)) ELSE EdgeRec(u, v, w)

\* graphs of up to MaxNodes nodes without edges
NodeDescriptions ==
    UNION {{[nodes |-> [i \in 1..n |-> NodeRecOf(NodeIds[i], ws[i])], links |-> <<>>] :
               ws \in [1..n -> NodeVals]} : n \in 0..MaxNodes}

EdgeRecs == {EdgeRecOf(p[1], p[2], w) : p \in {<<A, B>>, <<B, A>>, <<A, A>>}, w \in EdgeVals}

\* graphs on a and b of every kind with up to MaxEdges edge records
EdgeDescriptions ==
    {[directed |-> dir, multigraph |-> mul,
      nodes |-> <<NodeRecOf(A, Absent), NodeRecOf(B, Absent)>>, links |-> es] :
        dir \in BOOLEAN, mul \in BOOLEAN, es \in UNION {[1..n -> EdgeRecs] : n \in 0..MaxEdges}}

\* the scenario graph: one node carrying holdup_max = 50.0, one without it
HoldupMax == <<"h", "o", "l", "d", "u", "p", "_", "m", "a", "x">>
ScenarioNode == PyStr(<<"c", "m", "1">>)
ScenarioDesc ==
    [nodes |-> <<(K_id :> ScenarioNode) @@ (HoldupMax :> PyNum(50)), NodeRecOf(B, Absent)>>,
     links |-> <<>>]
ScenarioGraph == Materialize(ScenarioDesc).val

\* the scenario's queries on holdup_max
ScenarioQueries == {<<PyNum(100), "<">>, <<PyNum(10), ">=">>, <<PyNum(100), ">=">>}

\* attribute keys that differ in letters and in case
DiscoverKeys == {W, <<"W", "b">>, <<"c", "m">>}

\* graphs on a and b with one edge, the first node and the edge carrying any of
\* the keys
DiscoverDescriptions ==
    {[nodes |-> <<(K_id :> PyStr(A)) @@ [k \in nk |-> PyNum(1)], NodeRecOf(B, Absent)>>,
      links |-> <<(K_source :> PyStr(A)) @@ (K_target :> PyStr(B)) @@ [k \in ek |-> PyNum(1)]>>] :
        nk \in SUBSET DiscoverKeys, ek \in SUBSET DiscoverKeys}

\* search strings: the empty one, pairs that differ in case only, one that is in no key
DiscoverStrings == {<<>>, <<"w">>, <<"W">>, <<"b">>, <<"c", "m">>, <<"C", "M">>, <<"x">>}

\* element kinds: the three of matching_attributes, and "both"
DiscoverKinds == {"node", "edge", "all", "both"}

\* query values: None, a number, a string spelling a number, another string
QueryValues == {PyNone, PyNum(1), PyStr(<<"2">>), PyStr(<<"x">>)}
QueryOps == OperatorMap \cup {"=~"}

InitQuery ==
    /\ cache = <<>>
    /\ puts = <<>>
    /\ heap \in {<<Materialize(d).val>> :
                    d \in NodeDescriptions \cup EdgeDescriptions \cup {ScenarioDesc}
                             \cup DiscoverDescriptions}
    /\ held = <<>>
    /\ expect = <<>>
    /\ call = Idle
    /\ threads = <<>>
    /\ stored = <<>>

\* NetworkXGraph.nodes_by_attribute(G, attribute, value, op)
DoNodesByAttribute(attribute, value, op) ==
    /\ call = Idle
    /\ call' = Call("nodes_by_attribute", <<>>, NoneData, PyNone, <<attribute, value, op>>,
                    NodesByAttribute(heap[1], attribute, value, op))
    /\ UNCHANGED <<cache, puts, heap, held, expect, threads, stored>>

\* NetworkXGraph.edges_by_attribute(G, attribute, value, op)
DoEdgesByAttribute(attribute, value, op) ==
    /\ call = Idle
    /\ call' = Call("edges_by_attribute", <<>>, NoneData, PyNone, <<attribute, value, op>>,
                    EdgesByAttribute(heap[1], attribute, value, op))
    /\ UNCHANGED <<cache, puts, heap, held, expect, threads, stored>>

\* NetworkXGraph.matching_attributes(G, attribute, type=type)
DoMatchingAttributes(attribute, type) ==
    /\ call = Idle
    /\ call' = Call("matching_attributes", <<>>, NoneData, PyNone, <<attribute, type>>,
                    MatchingAttributes(heap[1], attribute, type))
    /\ UNCHANGED <<cache, puts, heap, held, expect, threads, stored>>

NextQuery ==
    \/ \E q \in QueryValues, op \in QueryOps : DoNodesByAttribute(W, q, op)
    \/ \E q \in ScenarioQueries : DoNodesByAttribute(HoldupMax, q[1], q[2])
    \/ \E q \in QueryValues, op \in QueryOps : DoEdgesByAttribute(W, q, op)
    \/ \E x \in DiscoverStrings, kind \in DiscoverKinds : DoMatchingAttributes(x, kind)
    \/ Return

SpecQuery == InitQuery /\ [][NextQuery]_vars

-----------------------------------------------------------------------------
(* shortest_path on graphs given inline, drawn from a bounded family         *)

\* a graph of the family has at most this many edges
MaxPathEdges == 3

PathNodes == <<A, B, <<"c">>>>

\* the ordered pairs of distinct nodes, in a fixed order
PathPairs ==
    <<<<A, B>>, <<B, <<"c">>>>, <<A, <<"c">>>>, <<B, A>>, <<<<"c">>, B>>, <<<<"c">>, A>>>>

\* the graphs on a, b, c, directed or not, with up to MaxPathEdges edges
PathDescriptions ==
    {[directed |-> dir, multigraph |-> FALSE,
      nodes |-> [i \in 1..Len(PathNodes) |-> NodeRecOf(PathNodes[i], Absent)],
      links |-> LET chosen == SelectSeq(PathPairs, LAMBDA pr : pr \in es)
                IN [i \in 1..Len(chosen) |-> EdgeRecOf(chosen[i][1], chosen[i][2], Absent)]] :
        dir \in BOOLEAN,
        es \in {x \in SUBSET Range(PathPairs) : Cardinality(x) <= MaxPathEdges}}

\* endpoints: the three nodes and a string that is no node
PathEnds == {PyStr(PathNodes[i]) : i \in 1..Len(PathNodes)} \cup {PyStr(<<"z">>)}

NextPath ==
    \/ \E s \in PathEnds, t \in PathEnds, d \in PathDescriptions : DoShortestPath(s, t, d, PyNone)
    \/ Return

SpecPath == Init /\ [][NextPath]_vars

-----------------------------------------------------------------------------
(* Properties of the resolver and the cache *)

\* the entry of an alias, NoneData when there is none
Entry(c, alias) == IF alias \in DOMAIN c THEN c[alias] ELSE NoneData

IsResolve == call.op = "_resolve_graph"

\* C1: _resolve_graph fails, returning no graph, when both an inline description and
\* an alias reference are given (the class of the error is left open here), and
\* raises ValueError when neither is; it returns a graph only when exactly one of
\* the two is given.
C1_ExactlyOneSource ==
    IsResolve =>
        LET inline == IsDict(call.data)
            byAlias == Truthy(call.uri)
        IN /\ inline /\ byAlias => ~call.ret.ok
           /\ ~inline /\ ~byAlias => ~call.ret.ok /\ call.ret.exc = "ValueError"
           /\ call.ret.ok => ~(inline <=> byAlias)

\* C2: an alias that cache_graph was never called with resolves to a not-found
\* ValueError behind the scheme, get_cached_graph returns None for it and
\* get_graph_resource the not-found object.
C2_NeverCachedIsNotFound ==
    \A alias \in Aliases :
        alias \notin DOMAIN puts =>
            /\ ResolveGraph(cache, heap, NoneData, PyStr(SCHEME \o alias)).res
                   = Raise("ValueError", "NotFound")
            /\ GetCachedGraph(cache, alias).res = Ok(NoneData)
            /\ GetGraphResource(cache, alias).res = Ok(JObj("error" :> JLit(NotFoundText(alias))))

\* C3: with no inline data, a reference that does not start with "graph://" raises
\* ValueError in every cache state, also when its text is a cached alias.
C3_PrefixBeforeLookup ==
    /\ IsResolve /\ ~IsDict(call.data) /\ call.uri.t = "str" /\ ~StartsWith(call.uri.s, SCHEME)
           => ~call.ret.ok /\ call.ret.exc = "ValueError"
    /\ \A u \in Uris :
           u.t = "str" /\ ~StartsWith(u.s, SCHEME)
               => LET r == ResolveGraph(cache, heap, NoneData, u).res
                  IN ~r.ok /\ r.exc = "ValueError" /\ r.msg \in {"InvalidURI", "NoData"}

C3_Witness ==
    /\ IsResolve /\ ~IsDict(call.data)
    /\ call.uri = PyStr(A)
    /\ A \in DOMAIN cache /\ Materialize(cache[A]).ok
    /\ call.ret = Raise("ValueError", "InvalidURI")

\* C4: "graph://" + r is looked up under the key r verbatim: the lookup finds an
\* entry iff r is a key of the cache, and the entry stored under r is what is
\* materialized.
C4_KeyIsRemainderVerbatim ==
    \A r \in Aliases :
        LET got == ResolveGraph(cache, heap, NoneData, PyStr(SCHEME \o r)).res IN
        /\ got = Raise("ValueError", "NotFound") <=> r \notin DOMAIN cache
        /\ r \in DOMAIN cache =>
               LET made == Materialize(cache[r]) IN
               IF made.ok THEN got.ok ELSE got = made

\* C5: after cache_graph(X, D), get_cached_graph(X) returns D and the JSON text of
\* get_graph_resource(X) decodes to D.
C5_RoundTrip ==
    /\ call.op = "cache_graph" =>
           /\ GetCachedGraph(cache, call.alias).res = Ok(call.data)
           /\ JsonLoads(GetGraphResource(cache, call.alias).res.val) = call.data
    /\ call.op = "get_cached_graph" /\ call.alias \in DOMAIN puts =>
           call.ret = Ok(puts[call.alias].last)
    /\ call.op = "get_graph_resource" /\ call.alias \in DOMAIN puts =>
           call.ret.ok /\ JsonLoads(call.ret.val) = puts[call.alias].last

C5_Witness ==
    /\ call.op = "get_graph_resource"
    /\ call.alias \in DOMAIN puts
    /\ puts[call.alias].last = DescEdges
    /\ JsonLoads(call.ret.val) = DescEdges

\* C6: get_cached_graph(a) is the description of the most recent cache_graph(a, .),
\* whatever it is, and None when there was none; is_cached(a) is true exactly when
\* there was one; no entry is ever removed.
C6_LastPutWins ==
    /\ \A alias \in Aliases :
           /\ GetCachedGraph(cache, alias).res.val
                  = (IF alias \in DOMAIN puts THEN puts[alias].last ELSE NoneData)
           /\ IsCached(cache, alias).res.val = (alias \in DOMAIN puts)
    /\ call.op = "get_cached_graph" =>
           call.ret.val = (IF call.alias \in DOMAIN puts THEN puts[call.alias].last ELSE NoneData)
    /\ call.op = "is_cached" => call.ret.val = (call.alias \in DOMAIN puts)

\* an alias was overwritten with a description that does not materialize, and
\* get_cached_graph returned it
C6_Witness ==
    /\ call.op = "get_cached_graph"
    /\ call.alias \in DOMAIN puts
    /\ puts[call.alias].again
    /\ call.ret = Ok(DescNoNodes)

Readers ==
    {"get_cached_graph", "is_cached", "get_graph_resource", "_resolve_graph",
     "shortest_path", "find_nodes_by_attribute", "find_edges_by_attribute",
     "find_best_matching_node_attribute", "find_best_matching_edge_attribute"}

\* C7: cache_graph(A, d) changes the entry of A only; the reads, the resolver and the
\* query tools leave the cache as it is, whether they succeed or fail.
C7_Frame ==
    [][/\ call'.op = "cache_graph" =>
              \A other \in Aliases \ {call'.alias} : Entry(cache', other) = Entry(cache, other)
       /\ call'.op \in Readers => cache' = cache]_vars

\* a query tool has failed, returning an error object, on a cache of two entries
C7_WitnessFailed ==
    /\ call.op = "find_best_matching_node_attribute"
    /\ call.ret.ok /\ call.ret.val.kind = "error"
    /\ Cardinality(DOMAIN cache) = 2

HasValue(attrs, attribute) == attribute \in DOMAIN attrs /\ attrs[attribute] # PyNone

\* the reported tuple t names the stored edge e: (u, v, key) in a multigraph, (u, v)
\* otherwise, the endpoints in either order when the graph is undirected
Names(G, t, e) ==
    /\ Joins(G, e, t[1], t[2])
    /\ IF G.multigraph THEN Len(t) = 3 /\ t[3] = e.k ELSE Len(t) = 2

\* the tuples in `found` name the edges in `want`, one each
NamesEach(G, found, want) ==
    /\ Len(found) = Cardinality(want)
    /\ \A i \in want : \E j \in 1..Len(found) : Names(G, found[j], G.edges[i])
    /\ \A j \in 1..Len(found) : \E i \in want : Names(G, found[j], G.edges[i])

\* C9: with None as the value and any of the six operators, nodes_by_attribute
\* returns exactly the nodes on which the attribute is present and not None, each
\* once, and edges_by_attribute exactly the edges on which it is present and not None.
C9_ExistencePredicate ==
    call.op \in {"nodes_by_attribute", "edges_by_attribute"}
        /\ call.args[2] = PyNone /\ call.args[3] \in OperatorMap =>
    LET G == heap[1]
        attribute == call.args[1]
    IN /\ call.ret.ok
       /\ call.op = "nodes_by_attribute" =>
            /\ Range(call.ret.val) = {n \in NodeSet(G) : HasValue(G.attr[n], attribute)}
            /\ Len(call.ret.val) = Cardinality(Range(call.ret.val))
       /\ call.op = "edges_by_attribute" =>
            NamesEach(G, call.ret.val,
                      {i \in 1..Len(G.edges) : HasValue(G.edges[i].attrs, attribute)})

\* an existence query under an operator other than ==, on a graph where the attribute
\* is None on one node and set on another, answered with the latter only
C9_Witness ==
    /\ call.op = "nodes_by_attribute"
    /\ call.args[2] = PyNone /\ call.args[3] = "<"
    /\ \E n \in NodeSet(heap[1]) : W \in DOMAIN heap[1].attr[n] /\ heap[1].attr[n][W] = PyNone
    /\ call.ret.ok /\ Len(call.ret.val) = 1

\* an existence query on the edges of an undirected multigraph with two parallel
\* edges entered in opposite directions, one of them without a value
C9_WitnessEdges ==
    /\ call.op = "edges_by_attribute"
    /\ call.args[2] = PyNone
    /\ ~heap[1].directed /\ heap[1].multigraph
    /\ Len(heap[1].edges) = 2
    /\ heap[1].edges[1].u = heap[1].edges[2].v /\ heap[1].edges[1].u # heap[1].edges[1].v
    /\ call.ret.ok /\ Len(call.ret.val) = 1

\* the operator applied to two values of the same kind, or == and != between any two
Comparable(op, v, q) == op \in {"==", "!="} \/ v.t = q.t

\* op(v, q) evaluates true
Satisfies(op, v, q) == PyCompare(op, v, q).ok /\ PyCompare(op, v, q).val

\* the non-None values the attribute takes on the nodes of G
ValuesOn(G, attribute) ==
    {G.attr[n][attribute] : n \in {m \in NodeSet(G) : HasValue(G.attr[m], attribute)}}

IsComparison ==
    /\ call.op = "nodes_by_attribute"
    /\ call.args[2] # PyNone
    /\ call.args[3] \in OperatorMap

\* C10 as stated: with a query value q that is not None, nodes_by_attribute returns
\* exactly the nodes whose attribute value v is present, not None and satisfies
\* op(v, q), q being the value the caller passed (read for values that op can
\* compare with q).
C10_AsStated ==
    IsComparison =>
    LET G == heap[1]
        attribute == call.args[1]
        q == call.args[2]
        op == call.args[3]
    IN (\A v \in ValuesOn(G, attribute) : Comparable(op, v, q)) =>
           /\ call.ret.ok
           /\ Range(call.ret.val) =
                  {n \in NodeSet(G) : /\ HasValue(G.attr[n], attribute)
                                      /\ Satisfies(op, G.attr[n][attribute], q)}

\* C10: with a query value q that is not None and c = type_cast(q), the number q
\* spells when it spells one and q itself otherwise: when op can compare every
\* non-None value of the attribute with c, nodes_by_attribute returns exactly the
\* nodes whose attribute value v is present, not None and satisfies op(v, c), each
\* once; otherwise it raises TypeError.  A node without the attribute, or with None,
\* is in no result.
C10_ComparisonPredicate ==
    IsComparison =>
    LET G == heap[1]
        attribute == call.args[1]
        c == TypeCast(call.args[2])
        op == call.args[3]
    IN /\ call.ret.ok <=> \A v \in ValuesOn(G, attribute) : Comparable(op, v, c)
       /\ ~call.ret.ok => call.ret.exc = "TypeError"
       /\ call.ret.ok =>
            /\ Range(call.ret.val) =
                   {n \in NodeSet(G) : /\ HasValue(G.attr[n], attribute)
                                       /\ Satisfies(op, G.attr[n][attribute], c)}
            /\ Len(call.ret.val) = Cardinality(Range(call.ret.val))

\* a != query on a graph with a node that satisfies it, a node that lacks the
\* attribute and is left out, answered with the former
C10_Witness ==
    /\ IsComparison
    /\ call.args[3] = "!="
    /\ \E n \in NodeSet(heap[1]) : W \notin DOMAIN heap[1].attr[n]
    /\ call.ret.ok /\ Len(call.ret.val) = 1

\* an ordering query where the attribute value and the query value differ, so that
\* the side each is on decides
C10_WitnessOrdering ==
    /\ IsComparison
    /\ call.args = <<W, PyNum(1), ">">>
    /\ call.ret.ok /\ Len(call.ret.val) = 1

\* the call in progress is this query on holdup_max over the scenario graph
IsScenarioQuery(q, op) ==
    /\ call.op = "nodes_by_attribute"
    /\ heap[1] = ScenarioGraph
    /\ call.args = <<HoldupMax, q, op>>

\* the node carrying holdup_max = 50.0 is in the answer
ScenarioNodeReturned == call.ret.ok /\ ScenarioNode \in Range(call.ret.val)

\* C11 as stated: on the graph with a node carrying holdup_max = 50.0, the query
\* (holdup_max, 100.0, "<") includes that node and the query (holdup_max, 10.0, ">=")
\* excludes it.
C11_AsStated ==
    /\ IsScenarioQuery(PyNum(100), "<") => ScenarioNodeReturned
    /\ IsScenarioQuery(PyNum(10), ">=") => call.ret.ok /\ ~ScenarioNodeReturned

\* C11: on the graph with a node carrying holdup_max = 50.0, the query
\* (holdup_max, 100.0, "<") includes that node, the query (holdup_max, 10.0, ">=")
\* includes it too (50.0 >= 10.0), and the query (holdup_max, 100.0, ">=") excludes it.
C11_Scenario ==
    /\ IsScenarioQuery(PyNum(100), "<") => ScenarioNodeReturned
    /\ IsScenarioQuery(PyNum(10), ">=") => ScenarioNodeReturned
    /\ IsScenarioQuery(PyNum(100), ">=") => call.ret.ok /\ ~ScenarioNodeReturned

\* the query (holdup_max, 10.0, ">=") answered with the node carrying 50.0 alone
C11_Witness ==
    /\ IsScenarioQuery(PyNum(10), ">=")
    /\ call.ret = Ok(<<ScenarioNode>>)

IsQuery == call.op \in {"nodes_by_attribute", "edges_by_attribute"}

\* C12: with an operator outside the six, nodes_by_attribute and edges_by_attribute
\* raise the unsupported-operator ValueError, on every graph, the empty one
\* included, and for every query value, None included; no element is examined, so
\* no other error can come first.
C12_UnsupportedOperator ==
    IsQuery /\ call.args[3] \notin OperatorMap =>
        call.ret = Raise("ValueError", "UnsupportedOperator")

\* an existence query (value None) with an unknown operator on the empty graph
C12_Witness ==
    /\ call.op = "nodes_by_attribute"
    /\ call.args[2] = PyNone /\ call.args[3] \notin OperatorMap
    /\ heap[1].nodes = <<>>
    /\ ~call.ret.ok /\ call.ret.exc = "ValueError"

\* the stored edges the query asks for: the attribute is set and, when a value is
\* given, stands in the relation op to the coerced value
EdgesAskedFor(G, attribute, q, op) ==
    {i \in 1..Len(G.edges) :
        /\ HasValue(G.edges[i].attrs, attribute)
        /\ q # PyNone => Satisfies(op, G.edges[i].attrs[attribute], TypeCast(q))}

\* C13: every element edges_by_attribute returns, for an existence or a comparison
\* query, is (u, v, key) when the graph is a multigraph and (u, v) when it is not;
\* the elements are pairwise distinct and name the matching edges one each, so
\* parallel edges of a multigraph come back separately, told apart by their keys.
C13_EdgeIdentity ==
    call.op = "edges_by_attribute" /\ call.ret.ok =>
    LET G == heap[1]
        found == call.ret.val
    IN /\ \A j \in 1..Len(found) : Len(found[j]) = (IF G.multigraph THEN 3 ELSE 2)
       /\ \A i, j \in 1..Len(found) : i # j => found[i] # found[j]
       /\ NamesEach(G, found, EdgesAskedFor(G, call.args[1], call.args[2], call.args[3]))

\* a comparison query on a multigraph answered with two parallel edges between the
\* same pair, apart by the key only
C13_Witness ==
    /\ call.op = "edges_by_attribute"
    /\ call.args[2] # PyNone
    /\ heap[1].multigraph
    /\ call.ret.ok /\ Len(call.ret.val) = 2
    /\ call.ret.val[1][1] = call.ret.val[2][1]
    /\ call.ret.val[1][2] = call.ret.val[2][2]
    /\ call.ret.val[1][3] # call.ret.val[2][3]

IsDiscovery == call.op = "matching_attributes"

\* the attribute keys that occur on at least one element of the kind
KeysOn(G, kind) ==
    LET onNodes == UNION {DOMAIN G.attr[n] : n \in NodeSet(G)}
        onEdges == UNION {DOMAIN G.edges[i].attrs : i \in 1..Len(G.edges)}
    IN CASE kind = "node" -> onNodes
         [] kind = "edge" -> onEdges
         [] OTHER -> onNodes \cup onEdges

\* x occurs in key at some position, letter case aside
OccursIn(x, key) ==
    \E off \in 0..(Len(key) - Len(x)) :
        \A j \in 1..Len(x) : LowerChar(key[off + j]) = LowerChar(x[j])

\* C14: for each of the kinds node, edge and all, matching_attributes returns
\* exactly the keys that occur on at least one element of the kind and contain the
\* search string, letter case aside, each key once; searches that differ in letter
\* case only return the same set.
C14_Discovery ==
    IsDiscovery /\ call.args[2] \in {"node", "edge", "all"} =>
    LET G == heap[1]
        x == call.args[1]
        kind == call.args[2]
    IN /\ call.ret.ok
       /\ Range(call.ret.val) = {key \in KeysOn(G, kind) : OccursIn(x, key)}
       /\ Len(call.ret.val) = Cardinality(Range(call.ret.val))
       /\ \A y \in DiscoverStrings :
              StrLower(y) = StrLower(x) =>
                  Range(MatchingAttributes(G, y, kind).val) = Range(call.ret.val)

\* a search in capitals that finds a key written in small letters, on a graph
\* where another key does not match
C14_Witness ==
    /\ IsDiscovery
    /\ call.args = <<<<"C", "M">>, "node">>
    /\ call.ret.ok /\ call.ret.val = << <<"c", "m">> >>
    /\ W \in KeysOn(heap[1], "node")

\* C15 as stated: the kinds node, edge and both are accepted, and the result for
\* both is the union of the results for node and for edge.
C15_AsStated ==
    IsDiscovery /\ call.args[2] \in {"node", "edge", "both"} =>
        /\ call.ret.ok
        /\ call.args[2] = "both" =>
               Range(call.ret.val) =
                   Range(MatchingAttributes(heap[1], call.args[1], "node").val)
                       \cup Range(MatchingAttributes(heap[1], call.args[1], "edge").val)

\* C15: the kinds accepted are node, edge and all; the result for all is the union
\* of the results for node and for edge on the same graph and search string; the
\* kind both is not one of them, and the call with it raises UnboundLocalError.
C15_Kinds ==
    IsDiscovery =>
        /\ call.args[2] \in {"node", "edge", "all"} => call.ret.ok
        /\ call.args[2] = "all" =>
               Range(call.ret.val) =
                   Range(MatchingAttributes(heap[1], call.args[1], "node").val)
                       \cup Range(MatchingAttributes(heap[1], call.args[1], "edge").val)
        /\ call.args[2] = "both" => ~call.ret.ok /\ call.ret.exc = "UnboundLocalError"

\* a search of kind all whose answer has a key found on a node only and a key found
\* on an edge only
C15_Witness ==
    /\ IsDiscovery
    /\ call.args[2] = "all"
    /\ call.ret.ok
    /\ \E k1, k2 \in Range(call.ret.val) :
           /\ k1 \in KeysOn(heap[1], "node") /\ k1 \notin KeysOn(heap[1], "edge")
           /\ k2 \in KeysOn(heap[1], "edge") /\ k2 \notin KeysOn(heap[1], "node")

QueryTools ==
    {"shortest_path", "find_nodes_by_attribute", "find_edges_by_attribute",
     "find_best_matching_node_attribute", "find_best_matching_edge_attribute"}

\* C16: no exception leaves a tool: load_graph_from_file and the five query tools
\* return a result in every case, and an error result when the graph they are
\* asked for cannot be resolved (neither source, malformed reference, alias not
\* cached, malformed description).
C16_ErrorBoundary ==
    call.op \in QueryTools \cup {"load_graph_from_file"} =>
        /\ call.ret.ok
        /\ call.op \in QueryTools
               /\ ~ResolveGraph(cache, heap, call.data, call.uri).res.ok
               => call.ret.val.kind = "error"

\* C17: a successful load_graph_from_file(path, a) returns status loaded, the alias
\* a and the uri "graph://" + a; from then on that uri resolves to the graph of the
\* description stored by the latest successful load under a, and a query tool
\* called with it alone never answers not-found or invalid-URI.
C17_LoadedUriResolves ==
    /\ call.op = "load_graph_from_file" /\ call.ret.val.kind = "cache" =>
           call.ret.val = [kind |-> "cache", alias |-> call.alias, status |-> "loaded",
                           uri |-> PyStr(SCHEME \o call.alias)]
    /\ \A a \in DOMAIN puts :
           LET r == ResolveGraph(cache, heap, NoneData, PyStr(SCHEME \o a)) IN
           /\ r.res.ok
           /\ r.heap[r.res.val] = Materialize(puts[a].last).val
    /\ call.op \in QueryTools /\ call.data = NoneData
           /\ (\E a \in DOMAIN puts : call.uri = PyStr(SCHEME \o a)) =>
           /\ call.ret.ok
           /\ call.ret.val.kind = "error" => call.ret.val.cause \notin {"NotFound", "InvalidURI"}

\* strings that spell a number, with the number
Spelled == {<<PyStr(<<"2">>), PyNum(2)>>}

\* the same query with another value, on the graph under query
SameQueryWith(q) ==
    IF call.op = "nodes_by_attribute"
    THEN NodesByAttribute(heap[1], call.args[1], q, call.args[3])
    ELSE EdgesByAttribute(heap[1], call.args[1], q, call.args[3])

\* C18: a query whose value is a string spelling the number n has the outcome of
\* the query with the number n, on every graph and under every operator; a string
\* that spells no number is compared as that string (== finds exactly the elements
\* holding it); type_cast applied twice is type_cast applied once, and None stays
\* None.
C18_Coercion ==
    /\ \A x \in QueryValues \cup NodeVals : TypeCast(TypeCast(x)) = TypeCast(x)
    /\ TypeCast(PyNone) = PyNone
    /\ IsQuery =>
           /\ \A sp \in Spelled : call.args[2] = sp[1] => call.ret = SameQueryWith(sp[2])
           /\ call.op = "nodes_by_attribute" /\ call.args[2] = PyStr(<<"x">>)
                  /\ call.args[3] = "==" =>
                  /\ call.ret.ok
                  /\ Range(call.ret.val) =
                         {n \in NodeSet(heap[1]) :
                             /\ call.args[1] \in DOMAIN heap[1].attr[n]
                             /\ heap[1].attr[n][call.args[1]] = PyStr(<<"x">>)}

\* the query (w, "2", ==) finds a node whose value is the number 2
C18_Witness ==
    /\ call.op = "nodes_by_attribute"
    /\ call.args = <<W, PyStr(<<"2">>), "==">>
    /\ call.ret.ok /\ Len(call.ret.val) >= 1
    /\ \A n \in Range(call.ret.val) : heap[1].attr[n][W] = PyNum(2)

\* G has an edge from u to v: stored so, or the other way round when undirected
HasEdge(G, u, v) ==
    \E i \in 1..Len(G.edges) :
        \/ G.edges[i].u = u /\ G.edges[i].v = v
        \/ ~G.directed /\ G.edges[i].u = v /\ G.edges[i].v = u

\* the walks of k edges from s to t
Walks(G, s, t, k) ==
    {w \in [1..(k + 1) -> NodeSet(G)] :
        /\ w[1] = s /\ w[k + 1] = t
        /\ \A i \in 1..k : HasEdge(G, w[i], w[i + 1])}

Reachable(G, s, t) == \E k \in 0..(Cardinality(NodeSet(G)) - 1) : Walks(G, s, t, k) # {}

\* C19: on the graph shortest_path resolves: when source and target are nodes and
\* the target can be reached along the edges (in their direction when directed),
\* the result is a path from source to target over edges of the graph and no walk
\* with fewer edges joins them ([source] when they are the same node); when both
\* are nodes and the target cannot be reached it is the error "No path found";
\* when one of them is no node it is the error "Invalid input".
C19_ShortestPathOutcome ==
    call.op = "shortest_path" /\ ~Truthy(call.uri) /\ Materialize(call.data).ok =>
    LET G == Materialize(call.data).val
        s == call.args[1]
        t == call.args[2]
        out == call.ret.val
    IN /\ call.ret.ok
       /\ s \in NodeSet(G) /\ t \in NodeSet(G) /\ Reachable(G, s, t) =>
            /\ out.kind = "path"
            /\ out.path \in Walks(G, s, t, Len(out.path) - 1)
            /\ \A k \in 0..(Len(out.path) - 2) : Walks(G, s, t, k) = {}
            /\ s = t => out.path = <<s>>
       /\ s \in NodeSet(G) /\ t \in NodeSet(G) /\ ~Reachable(G, s, t) =>
            out.kind = "error" /\ out.text = "No path found"
       /\ s \notin NodeSet(G) \/ t \notin NodeSet(G) =>
            out.kind = "error" /\ out.text = "Invalid input"

\* in a directed graph, a path over two edges; the way back does not exist
C19_Witness ==
    /\ call.op = "shortest_path"
    /\ call.ret.ok /\ call.ret.val.kind = "path" /\ Len(call.ret.val.path) = 3
    /\ Materialize(call.data).val.directed
    /\ ~Reachable(Materialize(call.data).val, call.args[2], call.args[1])

\* the ids of the node records of a description
DeclaredIds(d) == {d.nodes[i][K_id] : i \in {j \in 1..Len(d.nodes) : K_id \in DOMAIN d.nodes[j]}}

\* the source and target values of the edge records of a description
EndpointIds(d) ==
    LET recs == IF "links" \in DOMAIN d THEN d.links ELSE d.edges
    IN UNION {{recs[i][k] : k \in {K_source, K_target} \cap DOMAIN recs[i]} : i \in 1..Len(recs)}

\* C20: a description with an edge whose source or target is no declared node id
\* is answered with an error by load_graph_from_file, which builds the graph
\* before caching it; every cached description that materializes gives a graph
\* whose nodes are exactly the declared ids.
C20_DeclaredEndpoints ==
    /\ call.op = "load_graph_from_file" /\ call.args[1] \in DOMAIN Files
           /\ Files[call.args[1]].kind = "file" /\ JsonLoad(Files[call.args[1]].text).ok =>
           LET d == JsonLoad(Files[call.args[1]].text).val IN
           ModelValidate(d).ok /\ ~(EndpointIds(d) \subseteq DeclaredIds(d)) =>
               call.ret.val.kind = "error"
    /\ \A a \in DOMAIN cache :
           Materialize(cache[a]).ok =>
               NodeSet(Materialize(cache[a]).val) = DeclaredIds(cache[a])

-----------------------------------------------------------------------------
(* Properties of the two sources of a graph *)

\* the results of a tool call, whatever it leaves in the cache
Results(outs) == {o.res : o \in outs}

\* C21: for every alias X and every description D that materializes, once
\* cache_graph(X, D) has stored D, _resolve_graph(None, "graph://" + X) returns a
\* graph with the nodes, edges, attributes, directedness and multigraph flag of the
\* graph of _resolve_graph(D, None), and shortest_path answers the same on both.
C21_SourceEquivalence ==
    \A X \in DOMAIN puts :
        LET D == puts[X].last
            byAlias == ResolveGraph(cache, heap, NoneData, PyStr(SCHEME \o X))
            inline == ResolveGraph(cache, heap, D, PyNone)
        IN Materialize(D).ok =>
               /\ inline.res.ok
               /\ byAlias.res.ok
               /\ byAlias.heap[byAlias.res.val] = inline.heap[inline.res.val]
               /\ \A e \in Endpoints :
                      Results(ShortestPathTool(cache, heap, e[1], e[2], NoneData, PyStr(SCHEME \o X)))
                          = Results(ShortestPathTool(cache, heap, e[1], e[2], D, PyNone))

-----------------------------------------------------------------------------
(* Properties of the load *)

\* the keys of a normalized description
NormalKeys == {"directed", "multigraph", "graph", "nodes", "links"}

\* the failures _resolve_graph has for a reference, apart from the entry itself
ReferenceFailures == {"InvalidURI", "NotFound", "NoData"}

\* C22: a load_graph_from_file that returns an error (missing path, not a file,
\* invalid JSON, invalid description) leaves the whole cache as it was, a valid
\* entry under the same alias included; every entry a load has written has exactly
\* the keys directed, multigraph, graph, nodes and links, and _resolve_graph
\* materializes it: no reference fails on the entry it finds.
C22_AllOrNothing ==
    [][/\ call'.op = "load_graph_from_file" /\ call'.ret.val.kind = "error" => cache' = cache
       /\ \A a \in DOMAIN cache' :
              /\ DOMAIN cache'[a] = NormalKeys
              /\ ModelValidate(cache'[a]).ok
              /\ Materialize(cache'[a]).ok
       /\ \A u \in ToolUris :
              LET r == ResolveGraph(cache', heap', NoneData, u).res IN
              ~r.ok => r.msg \in ReferenceFailures]_vars

\* a load of a description that passes the schema and fails to build has returned
\* an error, under an alias that holds a valid entry of an earlier load
C22_Witness ==
    /\ call.op = "load_graph_from_file" /\ call.args[1] = "notarget.json"
    /\ call.ret.val.kind = "error"
    /\ call.alias \in DOMAIN cache
    /\ cache[call.alias] = puts[call.alias].last
    /\ Materialize(cache[call.alias]).ok

-----------------------------------------------------------------------------
(* Threads that share the cache.  cache_graph and _resolve_graph are plain    *)
(* functions on the module-level dict _loaded_graphs; called from several     *)
(* threads, their steps interleave.  cache_graph is one subscript assignment  *)
(* of a reference; _resolve_graph reads the dict twice, in the membership     *)
(* check and in the lookup, and then builds from the reference it has got.    *)

MaxThreads == 2

Threads == 1..MaxThreads

ThreadAliases == {A, SCHEME \o A}
ThreadDescriptions == {DescEdges, DescNoTarget}
ThreadUris == {PyStr(A), PyStr(SCHEME \o A), PyStr(SCHEME \o SCHEME \o A)}

\* a thread's call: op and pc say where it is, alias, data and uri are its
\* arguments, entry is the reference the lookup returned, ret its outcome
Thread(op, pc, alias, data, uri, entry, ret) ==
    [op |-> op, pc |-> pc, alias |-> alias, data |-> data, uri |-> uri, entry |-> entry,
     ret |-> ret]

IdleThread == Thread("idle", "idle", <<>>, NoneData, PyNone, NoneData, Ok(PyNone))

InitThreads ==
    /\ cache = <<>>
    /\ puts = <<>>
    /\ heap = <<>>
    /\ held = <<>>
    /\ expect = <<>>
    /\ call = Idle
    /\ threads = [t \in Threads |-> IdleThread]
    /\ stored = <<>>

\* a thread calls cache_graph(alias, graph_data)
EnterCacheGraph(t, alias, d) ==
    /\ threads[t] = IdleThread
    /\ threads' = [threads EXCEPT ![t] = Thread("cache_graph", "assign", alias, d, PyNone,
                                                 NoneData, Ok(PyNone))]
    /\ UNCHANGED <<cache, puts, heap, held, expect, call, stored>>

\* _loaded_graphs[alias] = graph_data
AssignEntry(t) ==
    /\ threads[t].op = "cache_graph" /\ threads[t].pc = "assign"
    /\ LET alias == threads[t].alias
           r == CacheGraph(cache, alias, threads[t].data)
       IN /\ cache' = r.cache
          /\ stored' = (alias :> (IF alias \in DOMAIN stored THEN stored[alias] ELSE {})
                                     \cup {threads[t].data}) @@ stored
          /\ threads' = [threads EXCEPT ![t].pc = "done", ![t].ret = r.res]
    /\ UNCHANGED <<puts, heap, held, expect, call>>

\* a thread calls _resolve_graph(None, graph_uri) with a reference: the prefix
\* check and the computation of the key, which read no shared state
EnterResolveGraph(t, graph_uri) ==
    /\ threads[t] = IdleThread
    /\ Truthy(graph_uri)
    /\ threads' = [threads EXCEPT ![t] =
           IF ~StartsWith(graph_uri.s, SCHEME)
           THEN Thread("_resolve_graph", "done", <<>>, NoneData, graph_uri, NoneData,
                       Raise("ValueError", "InvalidURI"))
           ELSE Thread("_resolve_graph", "check", StrReplace(graph_uri.s, SCHEME, <<>>),
                       NoneData, graph_uri, NoneData, Ok(PyNone))]
    /\ UNCHANGED <<cache, puts, heap, held, expect, call, stored>>

\* if alias not in _loaded_graphs: raise ValueError
CheckMembership(t) ==
    /\ threads[t].op = "_resolve_graph" /\ threads[t].pc = "check"
    /\ threads' = IF threads[t].alias \notin DOMAIN cache
                  THEN [threads EXCEPT ![t].pc = "done",
                                       ![t].ret = Raise("ValueError", "NotFound")]
                  ELSE [threads EXCEPT ![t].pc = "lookup"]
    /\ UNCHANGED <<cache, puts, heap, held, expect, call, stored>>

\* _loaded_graphs[alias]: the reference stored under the key, or KeyError
LookupEntry(t) ==
    /\ threads[t].op = "_resolve_graph" /\ threads[t].pc = "lookup"
    /\ threads' = IF threads[t].alias \notin DOMAIN cache
                  THEN [threads EXCEPT ![t].pc = "done",
                                       ![t].ret = Raise("KeyError", "NoEntry")]
                  ELSE [threads EXCEPT ![t].pc = "build",
                                       ![t].entry = cache[threads[t].alias]]
    /\ UNCHANGED <<cache, puts, heap, held, expect, call, stored>>

\* Graph(GraphDataModel.model_validate(entry)).graph
BuildGraph(t) ==
    /\ threads[t].op = "_resolve_graph" /\ threads[t].pc = "build"
    /\ threads' = [threads EXCEPT ![t].pc = "done", ![t].ret = Materialize(threads[t].entry)]
    /\ UNCHANGED <<cache, puts, heap, held, expect, call, stored>>

\* the call returns to its caller
ReturnThread(t) ==
    /\ threads[t].pc = "done"
    /\ threads' = [threads EXCEPT ![t] = IdleThread]
    /\ UNCHANGED <<cache, puts, heap, held, expect, call, stored>>

NextThreads ==
    \/ \E t \in Threads, alias \in ThreadAliases, d \in ThreadDescriptions :
          EnterCacheGraph(t, alias, d)
    \/ \E t \in Threads : AssignEntry(t)
    \/ \E t \in Threads, u \in ThreadUris : EnterResolveGraph(t, u)
    \/ \E t \in Threads : CheckMembership(t)
    \/ \E t \in Threads : LookupEntry(t)
    \/ \E t \in Threads : BuildGraph(t)
    \/ \E t \in Threads : ReturnThread(t)

SpecThreads == InitThreads /\ [][NextThreads]_vars

-----------------------------------------------------------------------------
(* Properties of the interleaving *)

\* the descriptions cache_graph calls have stored under an alias
StoredUnder(alias) == IF alias \in DOMAIN stored THEN stored[alias] ELSE {}

\* the thread has passed the membership check of _resolve_graph
PassedCheck(t) ==
    /\ threads[t].op = "_resolve_graph"
    /\ \/ threads[t].pc \in {"lookup", "build"}
       \/ threads[t].pc = "done" /\ threads[t].ret \notin {Raise("ValueError", "InvalidURI"),
                                                           Raise("ValueError", "NotFound")}

\* C23: when cache_graph and _resolve_graph calls on one alias interleave step by
\* step, the lookup of a resolve that has passed the membership check finds an
\* entry (no KeyError: nothing removes an entry), and what the resolve builds from
\* is exactly one description that a cache_graph call stored under that alias,
\* whole: its outcome is the outcome of materializing that description.
C23_Interleaving ==
    \A t \in Threads :
        PassedCheck(t) =>
            /\ threads[t].alias \in DOMAIN cache
            /\ threads[t].ret # Raise("KeyError", "NoEntry")
            /\ threads[t].pc \in {"build", "done"} =>
                   threads[t].entry \in StoredUnder(threads[t].alias)
            /\ threads[t].pc = "done" => threads[t].ret = Materialize(threads[t].entry)

\* a resolve has returned the graph of the description it looked up, while another
\* thread's cache_graph has since stored a different description under the alias
C23_Witness ==
    \E t, w \in Threads :
        /\ PassedCheck(t) /\ threads[t].pc = "done" /\ threads[t].ret.ok
        /\ threads[w].op = "cache_graph" /\ threads[w].pc = "done"
        /\ threads[w].alias = threads[t].alias
        /\ cache[threads[t].alias] = threads[w].data
        /\ threads[t].entry # threads[w].data
        /\ Cardinality(StoredUnder(threads[t].alias)) >= 2

====
